---- MODULE Spec2Model ----
(***************************************************************************)
(* Alert / pause decision engine of web/api/octoprint_views.py:            *)
(* alert_suppressed, alert_if_needed, pause_if_needed and                  *)
(* OctoPrintPicView.post, with the Printer / Print model methods, the      *)
(* scorer (lib.prediction) and the notifier those functions call.          *)
(* Timestamps are whole seconds since the epoch.                           *)
(***************************************************************************)
EXTENDS Integers, Sequences, FiniteSets, TLC

\* ---------------------------------------------------------------- bounds
\* the clock value of the initial state (seconds since the epoch)
T0 == 1000
\* the clock runs from T0 to T0 + Horizon
Horizon == 180
\* scored frames per behaviour (caps num_predictions, sent and pause_cmds)
MaxPredictions == 3
\* failing collaborator calls per behaviour
MaxFailures == 1
MaxTime == T0 + Horizon
\* the amounts by which the clock advances between events
TickSteps == {59, 60}
\* the per-frame detection confidence fed to the scorer
Confidences == {0, 8}
\* the values of printer.detective_sensitivity
Sensitivities == {1, 2}
\* the request workers of the concurrent specification
Workers == {1, 2}

\* ------------------------------------------------------------- constants
ALERT_COOLDOWN_SECONDS == 120
\* settings.ESCALATING_FACTOR
ESCALATING_FACTOR == 5
\* the scorer's threshold at escalating factor 1
THRESHOLD == 1
\* Python's None, for an unset timestamp
None == 0 - 1
\* Printer.action_on_failure
NONE == "NONE"
ALERT == "ALERT"
PAUSE == "PAUSE"
Actions == {NONE, ALERT, PAUSE}

\* `x or d` of Python, for an optional timestamp
OrDefault(x, d) == IF x = None THEN d ELSE x

VARIABLES
    now,              \* timezone.now(), in seconds
    printer,          \* the Printer row: watching, action_on_failure, detective_sensitivity, printing
    has_print,        \* printer.current_print != None
    print,            \* the Print row printer.current_print refers to
    prediction,       \* the PrinterPrediction row of the printer (the smoothed score)
    num_predictions,  \* redis print_num_predictions of the print
    pause_cmds,       \* pause commands issued to the printer
    alerts_set,       \* calls of Printer.set_alert that stored alerted_at
    failed_calls,     \* collaborator calls that failed so far
    sent,             \* the notifications send_failure_alert was called with, in order
    window,           \* the notifications sent since the last acknowledgement
    printer_pic,      \* redis printer_pic: the published snapshot
    last,             \* what the last request did (reset by every other event)
    wpc,              \* concurrent specification: each worker's position in post
    wreq              \* concurrent specification: each worker's request-local objects

vars == <<now, printer, has_print, print, prediction, num_predictions, pause_cmds,
          alerts_set, failed_calls, sent, window, printer_pic, last, wpc, wreq>>

\* a Print row with no timestamp set
NewPrint == [alerted_at |-> None, alert_acknowledged_at |-> None,
             alert_muted_at |-> None, paused_at |-> None]

\* ------------------------------------------------- the collaborators
\* The policy functions act on `w`, the objects a request can change:
\* w.print (the Print row), w.pause_cmds, w.alerts and w.sent. w.fail names the
\* collaborator call that fails in this request ("none" when all succeed),
\* w.failed says that the call was made and failed, and w.raised that an
\* exception is propagating: every later statement of the request is then
\* skipped (neither the policy functions nor post catch anything).

\* the collaborator calls of post that can fail: the raw image store, the
\* inference request, the tagged image store, the pause command and the
\* notifier. The first three raise into post. How the pause command and the
\* notifier report a failure is up to their code: they raise ("pause",
\* "notify") or log the failure and return ("pause_quiet", "notify_quiet").
Failures == {"raw", "inference", "tagged", "pause", "notify", "pause_quiet", "notify_quiet"}

\* Printer.pause_print: record the pause, then send the pause command
\* (the pause is recorded before the command is sent, whether or not it fails)
pause_print(w, t) ==
    IF w.raised THEN w
    ELSE IF w.fail \in {"pause", "pause_quiet"}
         THEN [w EXCEPT !.print.paused_at = IF @ = None THEN t ELSE @,
                        !.failed = TRUE,
                        !.raised = (w.fail = "pause")]
         ELSE [w EXCEPT !.print.paused_at = IF @ = None THEN t ELSE @,
                        !.pause_cmds = @ + 1]

\* mutant of set_alert: a second alert clears the mark instead of renewing it
set_alert_reset(w, t) ==
    IF w.raised THEN w
    ELSE [w EXCEPT !.print.alerted_at = IF @ = None THEN t ELSE None,
                   !.alerts = @ + 1]

\* Printer.set_alert: mark the alert fired
set_alert(w, t) ==
    IF w.raised THEN w
    ELSE [w EXCEPT !.print.alerted_at = t, !.alerts = @ + 1]

\* app.notifications.send_failure_alert: w.sent logs every call, delivered or not
send_failure_alert(w, is_warning, print_paused) ==
    IF w.raised THEN w
    ELSE [w EXCEPT !.sent = Append(@, [is_warning |-> is_warning,
                                       print_paused |-> print_paused]),
                   !.failed = @ \/ w.fail \in {"notify", "notify_quiet"},
                   !.raised = (w.fail = "notify")]

\* Printer.should_watch
should_watch(p) == p.watching

\* Printer.actively_printing
actively_printing(p) == p.printing

\* lib.prediction.update_prediction_with_detections: smooth the frame's confidence in
update_prediction_with_detections(pred, c) == (pred + c) \div 2

\* mutant of is_failing: a higher escalating factor is easier to cross
is_failing_inverted(pred, sensitivity, escalating_factor) ==
    pred > 0 /\ pred * sensitivity * escalating_factor >= THRESHOLD * ESCALATING_FACTOR

\* lib.prediction.is_failing: a lower escalating factor is easier to cross;
\* no evidence is never failing
is_failing(pred, sensitivity, escalating_factor) ==
    pred > 0 /\ pred * sensitivity >= THRESHOLD * escalating_factor

\* ------------------------------------------------- octoprint_views.py
\* mutant of alert_suppressed: the cooldown still holds at exactly 120 seconds
alert_suppressed_le(p, hp, cp, t) ==
    IF ~p.watching \/ ~hp \/ cp.alert_muted_at # None
    THEN TRUE
    ELSE LET last_acknowledged == OrDefault(cp.alert_acknowledged_at, 0)
         IN  (t - last_acknowledged) <= ALERT_COOLDOWN_SECONDS

\* mutant of alert_suppressed: the mute flag is not looked at
alert_suppressed_nomute(p, hp, cp, t) ==
    IF ~p.watching \/ ~hp
    THEN TRUE
    ELSE LET last_acknowledged == OrDefault(cp.alert_acknowledged_at, 0)
         IN  (t - last_acknowledged) < ALERT_COOLDOWN_SECONDS

alert_suppressed(p, hp, cp, t) ==
    IF ~p.watching \/ ~hp \/ cp.alert_muted_at # None
    THEN TRUE
    ELSE LET last_acknowledged == OrDefault(cp.alert_acknowledged_at, 0)
         IN  (t - last_acknowledged) < ALERT_COOLDOWN_SECONDS

\* mutant of alert_if_needed: the notification goes out without set_alert
alert_if_needed_noset(p, hp, w, t) ==
    IF alert_suppressed(p, hp, w.print, t)
    THEN w
    ELSE LET last_acknowledged == OrDefault(w.print.alert_acknowledged_at, 1)
             last_alerted == OrDefault(w.print.alerted_at, 0)
         IN  IF last_alerted > last_acknowledged
             THEN w
             ELSE send_failure_alert(w, TRUE, FALSE)

\* mutant of alert_if_needed: the outstanding-alert gate is missing
alert_if_needed_nogate(p, hp, w, t) ==
    IF alert_suppressed(p, hp, w.print, t)
    THEN w
    ELSE send_failure_alert(set_alert(w, t), TRUE, FALSE)

\* mutant of alert_if_needed: any earlier alert blocks, acknowledged or not
alert_if_needed_once(p, hp, w, t) ==
    IF alert_suppressed(p, hp, w.print, t)
    THEN w
    ELSE IF w.print.alerted_at # None
         THEN w
         ELSE send_failure_alert(set_alert(w, t), TRUE, FALSE)

\* mutant of alert_if_needed: the notification is not tagged as a warning
alert_if_needed_notwarning(p, hp, w, t) ==
    IF alert_suppressed(p, hp, w.print, t)
    THEN w
    ELSE LET last_acknowledged == OrDefault(w.print.alert_acknowledged_at, 1)
             last_alerted == OrDefault(w.print.alerted_at, 0)
         IN  IF last_alerted > last_acknowledged
             THEN w
             ELSE send_failure_alert(set_alert(w, t), FALSE, FALSE)

alert_if_needed(p, hp, w, t) ==
    IF alert_suppressed(p, hp, w.print, t)
    THEN w
    ELSE LET last_acknowledged == OrDefault(w.print.alert_acknowledged_at, 1)
             last_alerted == OrDefault(w.print.alerted_at, 0)
         IN  IF last_alerted > last_acknowledged
             THEN w
             ELSE send_failure_alert(set_alert(w, t), TRUE, FALSE)

\* mutant of pause_if_needed: the non-pause branch ignores the outstanding alert
pause_if_needed_nogate(p, hp, w, t) ==
    IF alert_suppressed(p, hp, w.print, t)
    THEN w
    ELSE IF p.action_on_failure = PAUSE /\ w.print.paused_at = None
         THEN send_failure_alert(set_alert(pause_print(w, t), t), FALSE, TRUE)
         ELSE send_failure_alert(set_alert(w, t), FALSE, FALSE)

\* mutant of pause_if_needed: action_on_failure = NONE silences the engine
pause_if_needed_silent(p, hp, w, t) ==
    IF alert_suppressed(p, hp, w.print, t) \/ p.action_on_failure = NONE
    THEN w
    ELSE LET last_acknowledged == OrDefault(w.print.alert_acknowledged_at, 1)
             last_alerted == OrDefault(w.print.alerted_at, 0)
         IN  IF p.action_on_failure = PAUSE /\ w.print.paused_at = None
             THEN send_failure_alert(set_alert(pause_print(w, t), t), FALSE, TRUE)
             ELSE IF ~(last_alerted > last_acknowledged)
                  THEN send_failure_alert(set_alert(w, t), FALSE, FALSE)
                  ELSE w

\* mutant of pause_if_needed: the notification goes out before set_alert
pause_if_needed_sendfirst(p, hp, w, t) ==
    IF alert_suppressed(p, hp, w.print, t)
    THEN w
    ELSE LET last_acknowledged == OrDefault(w.print.alert_acknowledged_at, 1)
             last_alerted == OrDefault(w.print.alerted_at, 0)
         IN  IF p.action_on_failure = PAUSE /\ w.print.paused_at = None
             THEN set_alert(send_failure_alert(pause_print(w, t), FALSE, TRUE), t)
             ELSE IF ~(last_alerted > last_acknowledged)
                  THEN set_alert(send_failure_alert(w, FALSE, FALSE), t)
                  ELSE w

\* mutant of pause_if_needed: the pause waits for the outstanding alert too
pause_if_needed_gated(p, hp, w, t) ==
    IF alert_suppressed(p, hp, w.print, t)
    THEN w
    ELSE LET last_acknowledged == OrDefault(w.print.alert_acknowledged_at, 1)
             last_alerted == OrDefault(w.print.alerted_at, 0)
         IN  IF last_alerted > last_acknowledged
             THEN w
             ELSE IF p.action_on_failure = PAUSE /\ w.print.paused_at = None
                  THEN send_failure_alert(set_alert(pause_print(w, t), t), FALSE, TRUE)
                  ELSE send_failure_alert(set_alert(w, t), FALSE, FALSE)

\* mutant of pause_if_needed: paused_at is not looked at
pause_if_needed_repause(p, hp, w, t) ==
    IF alert_suppressed(p, hp, w.print, t)
    THEN w
    ELSE LET last_acknowledged == OrDefault(w.print.alert_acknowledged_at, 1)
             last_alerted == OrDefault(w.print.alerted_at, 0)
         IN  IF p.action_on_failure = PAUSE
             THEN send_failure_alert(set_alert(pause_print(w, t), t), FALSE, TRUE)
             ELSE IF ~(last_alerted > last_acknowledged)
                  THEN send_failure_alert(set_alert(w, t), FALSE, FALSE)
                  ELSE w

pause_if_needed(p, hp, w, t) ==
    IF alert_suppressed(p, hp, w.print, t)
    THEN w
    ELSE LET last_acknowledged == OrDefault(w.print.alert_acknowledged_at, 1)
             last_alerted == OrDefault(w.print.alerted_at, 0)
         IN  IF p.action_on_failure = PAUSE /\ w.print.paused_at = None
             THEN send_failure_alert(set_alert(pause_print(w, t), t), FALSE, TRUE)
             ELSE IF ~(last_alerted > last_acknowledged)
                  THEN send_failure_alert(set_alert(w, t), FALSE, FALSE)
                  ELSE w

\* mutant of Dispatch: the two escalating factors change places
Dispatch_swapped(pred, p) ==
    IF is_failing(pred, p.detective_sensitivity, 1) THEN "pause"
    ELSE IF is_failing(pred, p.detective_sensitivity, ESCALATING_FACTOR) THEN "alert"
    ELSE "none"

\* post, lines 103-106: which policy function the scored frame is handed to
Dispatch(pred, p) ==
    IF is_failing(pred, p.detective_sensitivity, ESCALATING_FACTOR) THEN "pause"
    ELSE IF is_failing(pred, p.detective_sensitivity, 1) THEN "alert"
    ELSE "none"

\* post, lines 103-106: the dispatch applied to the request's objects
RunPolicy(branch, p, hp, w, t) ==
    IF branch = "pause" THEN pause_if_needed(p, hp, w, t)
    ELSE IF branch = "alert" THEN alert_if_needed(p, hp, w, t)
    ELSE w

\* the objects a request starts from: the Print row as the request read it,
\* and f, the collaborator call that raises in it
World(pr, f) ==
    [print |-> pr, pause_cmds |-> pause_cmds, alerts |-> alerts_set, sent |-> sent,
     fail |-> f, failed |-> FALSE, raised |-> FALSE]

\* ------------------------------------------------- bookkeeping of `last`
NoLast == [op |-> "none", t |-> 0, scored |-> FALSE, branch |-> "none",
           strict |-> FALSE, loose |-> FALSE,
           printer |-> [watching |-> FALSE, action_on_failure |-> NONE,
                        detective_sensitivity |-> 0, printing |-> FALSE],
           has_print |-> FALSE, pre |-> NewPrint, pre_prediction |-> 0,
           pre_num |-> 0, arrived |-> 0, paused |-> 0, notes |-> <<>>,
           published |-> "none", fail |-> "none", pic_id |-> None]

\* the elements of s after its first n
Drop(s, n) == SubSeq(s, n + 1, Len(s))

\* what a scored frame did: it found the Print row as w0.print, the score at
\* pred0 and `arrived` notifications already sent since the last
\* acknowledgement, scored pred, and its policy function turned w0 into w1
\* (pic_id is filled in by Post, which knows the second the frame came in)
ScoredFrame(pred0, pred, arrived, w0, w1) ==
    [op |-> "post", t |-> now, scored |-> TRUE,
     branch |-> Dispatch(pred, printer),
     strict |-> is_failing(pred, printer.detective_sensitivity, ESCALATING_FACTOR),
     loose |-> is_failing(pred, printer.detective_sensitivity, 1),
     printer |-> printer, has_print |-> has_print, pre |-> w0.print,
     pre_prediction |-> pred0, pre_num |-> num_predictions, arrived |-> arrived,
     paused |-> w1.pause_cmds - w0.pause_cmds,
     notes |-> Drop(w1.sent, Len(w0.sent)), published |-> "tagged",
     fail |-> w0.fail, pic_id |-> None]

\* a worker that holds no request; `arrived` counts the notifications already
\* sent, since the last acknowledgement, when the worker's frame came in
NoWorker == [branch |-> "none", print |-> NewPrint, pred0 |-> 0, pred |-> 0, arrived |-> 0]

\* ------------------------------------------------- initial state
Init ==
    /\ now = T0
    /\ printer \in [watching : BOOLEAN, action_on_failure : Actions,
                    detective_sensitivity : Sensitivities, printing : {TRUE}]
    /\ has_print = TRUE
    /\ print = NewPrint
    /\ prediction = 0
    /\ num_predictions = 0
    /\ pause_cmds = 0
    /\ alerts_set = 0
    /\ failed_calls = 0
    /\ sent = <<>>
    /\ window = <<>>
    /\ printer_pic = "none"
    /\ last = NoLast
    /\ wpc = [w \in Workers |-> "idle"]
    /\ wreq = [w \in Workers |-> NoWorker]

\* ------------------------------------------------- the request handler
\* mutant of Post: the frame is scored whether or not the printer is watched
\* and printing
Post_noskip(c) ==
    /\ \A w \in Workers : wpc[w] = "idle"
    /\ num_predictions < MaxPredictions
    /\ LET pred == update_prediction_with_detections(prediction, c)
           branch == Dispatch(pred, printer)
           w0 == World(print, "none")
           w1 == RunPolicy(branch, printer, has_print, w0, now)
           notes == Drop(w1.sent, Len(sent))
       IN  /\ prediction' = pred
           /\ printer_pic' = "tagged"
           /\ print' = w1.print
           /\ pause_cmds' = w1.pause_cmds
           /\ alerts_set' = w1.alerts
           /\ sent' = w1.sent
           /\ window' = window \o notes
           /\ num_predictions' = num_predictions + 1
           /\ last' = [ScoredFrame(prediction, pred, Len(window), w0, w1)
                             EXCEPT !.pic_id = now]
    /\ UNCHANGED <<now, failed_calls, printer, has_print, wpc, wreq>>

\* OctoPrintPicView.post on a frame whose detections carry confidence c,
\* handled from start to end with no other request in between
Post(c) ==
    /\ \A w \in Workers : wpc[w] = "idle"
    /\ IF ~should_watch(printer) \/ ~actively_printing(printer)
       THEN /\ printer_pic' = "raw"
            /\ last' = [NoLast EXCEPT !.op = "post", !.t = now, !.printer = printer,
                                      !.has_print = has_print, !.pre = print,
                                      !.pre_prediction = prediction,
                                      !.pre_num = num_predictions,
                                      !.arrived = Len(window),
                                      !.published = "raw", !.pic_id = now]
            /\ UNCHANGED <<print, prediction, num_predictions, pause_cmds, alerts_set, sent, window>>
       ELSE /\ num_predictions < MaxPredictions
            /\ LET pred == update_prediction_with_detections(prediction, c)
                   branch == Dispatch(pred, printer)
                   w0 == World(print, "none")
                   w1 == RunPolicy(branch, printer, has_print, w0, now)
                   notes == Drop(w1.sent, Len(sent))
               IN  /\ prediction' = pred
                   /\ printer_pic' = "tagged"
                   /\ print' = w1.print
                   /\ pause_cmds' = w1.pause_cmds
                   /\ alerts_set' = w1.alerts
                   /\ sent' = w1.sent
                   /\ window' = window \o notes
                   /\ num_predictions' = num_predictions + 1
                   /\ last' = [ScoredFrame(prediction, pred, Len(window), w0, w1)
                             EXCEPT !.pic_id = now]
    /\ UNCHANGED <<now, failed_calls, printer, has_print, wpc, wreq>>

\* ------------------------------------------------- the environment
\* the clock advances (a policy function runs within one clock second)
Tick(d) ==
    /\ now + d <= MaxTime
    /\ \A w \in Workers : wpc[w] # "act"
    /\ now' = now + d
    /\ last' = NoLast
    /\ UNCHANGED <<failed_calls, printer, has_print, print, prediction, num_predictions, pause_cmds, alerts_set,
                   sent, window, printer_pic, wpc, wreq>>

\* a human acknowledges the alert of the current print
Acknowledge ==
    /\ has_print
    /\ print.alert_acknowledged_at # now
    /\ print' = [print EXCEPT !.alert_acknowledged_at = now]
    /\ window' = <<>>
    /\ wreq' = [w \in Workers |-> [wreq[w] EXCEPT !.arrived = 0]]
    /\ last' = NoLast
    /\ UNCHANGED <<now, failed_calls, printer, has_print, prediction, num_predictions, pause_cmds, alerts_set,
                   sent, printer_pic, wpc>>

\* a human mutes the alerts of the current print
Mute ==
    /\ has_print
    /\ print.alert_muted_at = None
    /\ print' = [print EXCEPT !.alert_muted_at = now]
    /\ last' = NoLast
    /\ UNCHANGED <<now, failed_calls, printer, has_print, prediction, num_predictions, pause_cmds, alerts_set,
                   sent, window, printer_pic, wpc, wreq>>

\* the user switches monitoring on or off
SetWatching ==
    /\ printer' = [printer EXCEPT !.watching = ~@]
    /\ last' = NoLast
    /\ UNCHANGED <<now, failed_calls, has_print, print, prediction, num_predictions, pause_cmds, alerts_set,
                   sent, window, printer_pic, wpc, wreq>>

\* the printer reports that it stopped or resumed printing the current print
SetPrinting ==
    /\ has_print
    /\ printer' = [printer EXCEPT !.printing = ~@]
    /\ last' = NoLast
    /\ UNCHANGED <<now, failed_calls, has_print, print, prediction, num_predictions, pause_cmds, alerts_set,
                   sent, window, printer_pic, wpc, wreq>>

\* the print ends: the printer has no current print and is not printing
EndPrint ==
    /\ has_print
    /\ has_print' = FALSE
    /\ printer' = [printer EXCEPT !.printing = FALSE]
    /\ last' = NoLast
    /\ UNCHANGED <<now, failed_calls, print, prediction, num_predictions, pause_cmds, alerts_set,
                   sent, window, printer_pic, wpc, wreq>>

Next ==
    \/ \E c \in Confidences : Post(c)
    \/ \E d \in TickSteps : Tick(d)
    \/ Acknowledge
    \/ Mute
    \/ SetWatching
    \/ SetPrinting
    \/ EndPrint

Spec == Init /\ [][Next]_vars

\* ------------------------------------------------- failing collaborators
\* OctoPrintPicView.post on a frame during which the collaborator call f fails
PostFail(c, f) ==
    /\ \A w \in Workers : wpc[w] = "idle"
    /\ failed_calls < MaxFailures
    /\ LET pred == update_prediction_with_detections(prediction, c)
           branch == Dispatch(pred, printer)
           w0 == World(print, f)
           w1 == RunPolicy(branch, printer, has_print, w0, now)
           aborted == [NoLast EXCEPT !.op = "post", !.t = now, !.printer = printer,
                                     !.has_print = has_print, !.pre = print,
                                     !.pre_prediction = prediction,
                                     !.pre_num = num_predictions,
                                     !.arrived = Len(window),
                                     !.fail = f, !.pic_id = now]
       IN  IF f = "raw"
           \* line 77 raises: nothing was done yet
           THEN /\ last' = aborted
                /\ UNCHANGED <<print, prediction, num_predictions, pause_cmds, alerts_set,
                               sent, window, printer_pic>>
           ELSE /\ should_watch(printer) /\ actively_printing(printer)
                /\ num_predictions < MaxPredictions
                /\ IF f = "inference"
                   \* lines 83-84 raise: the raw snapshot is stored, nothing else
                   THEN /\ last' = aborted
                        /\ UNCHANGED <<print, prediction, num_predictions, pause_cmds,
                                       alerts_set, sent, window, printer_pic>>
                   ELSE IF f = "tagged"
                   \* line 97 raises: the prediction was saved at line 90
                   THEN /\ prediction' = pred
                        /\ last' = [ScoredFrame(prediction, pred, Len(window), w0, w0)
                                       EXCEPT !.published = "none", !.pic_id = now]
                        /\ UNCHANGED <<print, num_predictions, pause_cmds, alerts_set,
                                       sent, window, printer_pic>>
                   \* pause_print or send_failure_alert fails in the policy
                   \* function; line 108 runs unless the failure was raised
                   ELSE /\ w1.failed
                        /\ prediction' = pred
                        /\ printer_pic' = "tagged"
                        /\ print' = w1.print
                        /\ pause_cmds' = w1.pause_cmds
                        /\ alerts_set' = w1.alerts
                        /\ sent' = w1.sent
                        /\ window' = window \o Drop(w1.sent, Len(sent))
                        /\ num_predictions' = IF w1.raised THEN num_predictions
                                                            ELSE num_predictions + 1
                        /\ last' = [ScoredFrame(prediction, pred, Len(window), w0, w1)
                                       EXCEPT !.pic_id = now]
    /\ failed_calls' = failed_calls + 1
    /\ UNCHANGED <<now, printer, has_print, wpc, wreq>>

NextFail ==
    \/ \E c \in Confidences : Post(c)
    \/ \E c \in Confidences, f \in Failures : PostFail(c, f)
    \/ \E d \in TickSteps : Tick(d)
    \/ Acknowledge
    \/ SetWatching

\* one request at a time, with at most MaxFailures failing collaborator calls
SpecFail == Init /\ [][NextFail]_vars

\* ------------------------------------------------- concurrent requests
\* post, lines 70-101, in worker w: the frame is stored and, when the printer
\* is watched and printing, scored; the worker then stands before line 103
W_Receive(w, c) ==
    /\ wpc[w] = "idle"
    /\ IF ~should_watch(printer) \/ ~actively_printing(printer)
       THEN /\ printer_pic' = "raw"
            /\ UNCHANGED <<prediction, wpc, wreq>>
       ELSE /\ num_predictions + Cardinality({v \in Workers : wpc[v] # "idle"}) < MaxPredictions
            /\ LET pred == update_prediction_with_detections(prediction, c)
               IN  /\ prediction' = pred
                   /\ wreq' = [wreq EXCEPT ![w].branch = Dispatch(pred, printer),
                                            ![w].pred0 = prediction,
                                            ![w].pred = pred,
                                            ![w].arrived = Len(window)]
            /\ printer_pic' = "tagged"
            /\ wpc' = [wpc EXCEPT ![w] = "policy"]
    /\ last' = NoLast
    /\ UNCHANGED <<now, failed_calls, printer, has_print, print, num_predictions, pause_cmds, alerts_set, sent, window>>

\* lines 31-35, 41-42, 53-54 in worker w: the policy function reads the Print
\* row into the request's own object
W_Read(w) ==
    /\ wpc[w] = "policy"
    /\ wreq' = [wreq EXCEPT ![w].print = print]
    /\ wpc' = [wpc EXCEPT ![w] = "act"]
    /\ last' = NoLast
    /\ UNCHANGED <<now, failed_calls, printer, has_print, print, prediction, num_predictions,
                   pause_cmds, alerts_set, sent, window, printer_pic>>

\* lines 43-47, 56-62 and 108 in worker w: decide on what was read, act, and
\* save the timestamps the request set
W_Act(w) ==
    /\ wpc[w] = "act"
    /\ LET w0 == World(wreq[w].print, "none")
           w1 == RunPolicy(wreq[w].branch, printer, has_print, w0, now)
       IN  /\ print' = [print EXCEPT
                          !.paused_at = IF w1.print.paused_at # w0.print.paused_at
                                        THEN w1.print.paused_at ELSE @,
                          !.alerted_at = IF w1.print.alerted_at # w0.print.alerted_at
                                         THEN w1.print.alerted_at ELSE @]
           /\ pause_cmds' = w1.pause_cmds
           /\ alerts_set' = w1.alerts
           /\ sent' = w1.sent
           /\ window' = window \o Drop(w1.sent, Len(sent))
           /\ last' = ScoredFrame(wreq[w].pred0, wreq[w].pred, wreq[w].arrived, w0, w1)
    /\ num_predictions' = num_predictions + 1
    /\ wpc' = [wpc EXCEPT ![w] = "idle"]
    /\ wreq' = [wreq EXCEPT ![w] = NoWorker]
    /\ UNCHANGED <<now, failed_calls, printer, has_print, prediction, printer_pic>>

NextConc ==
    \/ \E w \in Workers, c \in Confidences : W_Receive(w, c)
    \/ \E w \in Workers : W_Read(w)
    \/ \E w \in Workers : W_Act(w)
    \/ \E d \in TickSteps : Tick(d)
    \/ Acknowledge

\* one request worker per frame, the workers' steps interleaved
SpecConc == Init /\ [][NextConc]_vars

\* ------------------------------------------------- the frame `last` describes
\* the last event was a frame, and nothing happened since
Frame == last.op = "post"
\* the frame was scored (lines 83-108 ran)
Scored == Frame /\ last.scored
\* the frame fails on the strict tier, the one that is harder to cross
\* (is_failing at ESCALATING_FACTOR), which post hands to pause_if_needed
Strict == Scored /\ last.strict
\* the frame fails on the loose tier only (is_failing at factor 1 alone)
LooseOnly == Scored /\ last.loose /\ ~last.strict
\* the frame fails on either tier
Failing == Scored /\ (last.strict \/ last.loose)
\* the print was muted, unwatched or without current print when the frame came
Gated == ~last.printer.watching \/ ~last.has_print \/ last.pre.alert_muted_at # None
\* seconds from the last acknowledgement (epoch zero when there is none) to the frame
SinceAck == last.t - OrDefault(last.pre.alert_acknowledged_at, 0)
\* the frame came within the cooldown of the last acknowledgement
CoolingDown == SinceAck < ALERT_COOLDOWN_SECONDS
\* an alert was outstanding (fired and not acknowledged since) when the frame came
Outstanding ==
    OrDefault(last.pre.alerted_at, 0) > OrDefault(last.pre.alert_acknowledged_at, 1)
\* the pause branch applies to the frame
PauseDue == last.printer.action_on_failure = PAUSE /\ last.pre.paused_at = None
\* the frame paused nothing, notified nobody and left both timestamps alone
NoEffect ==
    /\ last.paused = 0
    /\ last.notes = <<>>
    /\ print.alerted_at = last.pre.alerted_at
    /\ print.paused_at = last.pre.paused_at
PausedNote == [is_warning |-> FALSE, print_paused |-> TRUE]
WarningNote == [is_warning |-> TRUE, print_paused |-> FALSE]
\* how many of the notifications in s satisfy print_paused = b
CountPaused(s, b) == Cardinality({i \in 1..Len(s) : s[i].print_paused = b})

\* ------------------------------------------------- claims
\* C1: a frame within 120 seconds of the last acknowledgement pauses nothing,
\* notifies nobody and leaves alerted_at and paused_at alone, whatever its tier
\* and action_on_failure; at 120 seconds or more (a never-acknowledged print
\* counting from epoch zero) a failing frame on a watched, unmuted current
\* print is not held back by the cooldown: it notifies and sets alerted_at,
\* unless only the outstanding-alert gate stops it.
C1_CooldownSuppression ==
    /\ (Frame /\ last.pre.alert_acknowledged_at # None /\ CoolingDown) => NoEffect
    /\ (Failing /\ ~Gated /\ ~CoolingDown /\ (~Outstanding \/ (last.strict /\ PauseDue)))
          => (Len(last.notes) = 1 /\ print.alerted_at = last.t)
C1_Witness ==
    /\ Strict /\ ~Gated /\ PauseDue
    /\ last.pre.alert_acknowledged_at # None
    /\ SinceAck = ALERT_COOLDOWN_SECONDS - 1
    /\ NoEffect

\* C2: a frame on a printer that is not watching, has no current print or whose
\* print is muted pauses nothing, notifies nobody and leaves alerted_at and
\* paused_at alone.
C2_GateShortCircuits == (Frame /\ Gated) => NoEffect
C2_Witness ==
    /\ Strict /\ PauseDue /\ ~CoolingDown
    /\ last.printer.watching /\ last.has_print
    /\ last.pre.alert_muted_at # None
    /\ NoEffect

\* C3: a strictly failing, unsuppressed frame with action_on_failure = PAUSE and
\* paused_at unset issues one pause command, sends the one notification
\* (is_warning=False, print_paused=True) and leaves paused_at and alerted_at at
\* the frame's time, also when an earlier alert is still unacknowledged.
C3_PauseAction ==
    (Strict /\ ~Gated /\ ~CoolingDown /\ PauseDue)
        => /\ last.paused = 1
           /\ last.notes = <<PausedNote>>
           /\ print.paused_at = last.t
           /\ print.alerted_at = last.t
C3_Witness ==
    /\ Strict /\ ~Gated /\ ~CoolingDown /\ PauseDue
    /\ Outstanding
    /\ last.paused = 1
    /\ print.paused_at = last.t

\* C4: over the frames of one print at most one pause command is issued and at
\* most one 'paused' notification is sent; a strictly failing frame that finds
\* paused_at set issues no pause command, sends no 'paused' notification and
\* leaves paused_at as it was.
C4_PauseIdempotence ==
    /\ pause_cmds <= 1
    /\ CountPaused(sent, TRUE) <= 1
    /\ (Strict /\ last.pre.paused_at # None)
          => /\ last.paused = 0
             /\ CountPaused(last.notes, TRUE) = 0
             /\ print.paused_at = last.pre.paused_at
C4_Witness ==
    /\ Strict /\ ~Gated /\ ~CoolingDown
    /\ last.printer.action_on_failure = PAUSE
    /\ last.pre.paused_at # None
    /\ pause_cmds = 1
    /\ last.paused = 0

\* C5: with one worker per frame, two concurrent failing frames of one printer
\* never yield two pause commands or two 'paused' notifications for one print,
\* nor two other notifications between two acknowledgements.
C5_Serialized ==
    /\ pause_cmds <= 1
    /\ CountPaused(sent, TRUE) <= 1
    /\ CountPaused(window, FALSE) <= 1

\* C6 as stated: once a frame has fired an alert, no later frame sends a
\* second notification before an acknowledgement.
C6_NoSecondNotification == Len(window) <= 1
\* C6, amended: once a frame has fired an alert, a frame that arrives later,
\* before an acknowledgement, sends no notification, except the one 'paused'
\* notification of a strictly failing frame with action_on_failure = PAUSE that
\* finds paused_at unset.
C6_ReAlertSuppression ==
    (Frame /\ last.arrived >= 1)
        => \/ last.notes = <<>>
           \/ (Strict /\ PauseDue /\ last.notes = <<PausedNote>>)
C6_Witness ==
    /\ Failing /\ ~Gated /\ ~CoolingDown
    /\ last.arrived = 1
    /\ last.notes = <<>>

\* C7: when the last acknowledgement is later than the last alert, a failing
\* frame (either tier) 120 seconds or more after that acknowledgement, on a
\* watching, unmuted print, sends a notification and sets alerted_at to the
\* frame's time.
C7_ReArming ==
    (/\ Failing /\ ~Gated
     /\ last.pre.alerted_at # None
     /\ last.pre.alert_acknowledged_at > last.pre.alerted_at
     /\ last.t >= last.pre.alert_acknowledged_at + ALERT_COOLDOWN_SECONDS)
        => (Len(last.notes) = 1 /\ print.alerted_at = last.t)
C7_Witness ==
    /\ LooseOnly /\ ~Gated
    /\ last.pre.alerted_at # None
    /\ last.pre.alert_acknowledged_at > last.pre.alerted_at
    /\ last.t >= last.pre.alert_acknowledged_at + ALERT_COOLDOWN_SECONDS
    /\ print.alerted_at = last.t

\* C8: a frame failing on the loose tier only, unsuppressed and with no alert
\* outstanding, sets alerted_at, sends the one notification (is_warning=True,
\* print_paused=False), issues no pause command and leaves paused_at alone,
\* whatever action_on_failure is.
C8_WarningPath ==
    (LooseOnly /\ ~Gated /\ ~CoolingDown /\ ~Outstanding)
        => /\ print.alerted_at = last.t
           /\ last.notes = <<WarningNote>>
           /\ last.paused = 0
           /\ print.paused_at = last.pre.paused_at
C8_Witness ==
    /\ LooseOnly /\ ~Gated /\ ~CoolingDown
    /\ last.pre.alerted_at = None /\ last.pre.alert_acknowledged_at = None
    /\ last.printer.action_on_failure = PAUSE
    /\ last.notes = <<WarningNote>>

\* C9: no step clears or decreases paused_at or alerted_at once it is set.
C9_TimestampMonotonic ==
    [][/\ print.paused_at # None => print'.paused_at >= print.paused_at
       /\ print.alerted_at # None => print'.alerted_at >= print.alerted_at]_vars
C9_Witness ==
    /\ Frame
    /\ last.pre.alerted_at # None /\ print.alerted_at > last.pre.alerted_at
    /\ last.pre.paused_at # None /\ print.paused_at = last.pre.paused_at

\* C10: a frame received while the printer is not to be watched or not printing
\* is not scored, leaves the prediction, alerted_at, paused_at and the
\* prediction counter as they were, pauses nothing, notifies nobody, and
\* publishes the raw snapshot only.
C10_SkippedFrame ==
    (Frame /\ (~last.printer.watching \/ ~last.printer.printing))
        => /\ ~last.scored
           /\ prediction = last.pre_prediction
           /\ num_predictions = last.pre_num
           /\ NoEffect
           /\ last.published = "raw" /\ printer_pic = "raw"
C10_Witness ==
    /\ Frame /\ ~last.printer.watching /\ last.printer.printing
    /\ last.pre_prediction > 0 /\ last.pre_num > 0
    /\ printer_pic = "raw"

\* C11 as stated: the pause path is taken exactly when is_failing holds at
\* escalating factor 1, the warning path exactly when it holds at the larger
\* factor only.
C11_PauseAtFactorOne ==
    Scored => /\ (last.branch = "pause" <=> last.loose)
              /\ (last.branch = "alert" <=> (last.strict /\ ~last.loose))
\* C11, amended: the pause / non-warning path is taken exactly when is_failing
\* holds at ESCALATING_FACTOR, the warning path exactly when it holds at factor
\* 1 and not at ESCALATING_FACTOR; a notification is tagged as a warning
\* exactly when the frame fails at factor 1 only.
C11_TierAssignment ==
    Scored => /\ (last.branch = "pause" <=> last.strict)
              /\ (last.branch = "alert" <=> (last.loose /\ ~last.strict))
              /\ \A i \in 1..Len(last.notes) :
                    last.notes[i].is_warning <=> (last.loose /\ ~last.strict)
C11_Witness ==
    /\ LooseOnly /\ last.branch = "alert"
    /\ last.notes = <<WarningNote>>

\* the scores the tiers are compared on
Scores == 0..(2 * ESCALATING_FACTOR)

C17_StrictNonPause ==
    (Strict /\ ~Gated /\ ~CoolingDown /\ ~PauseDue)
        => /\ last.paused = 0
           /\ print.paused_at = last.pre.paused_at
           /\ ~Outstanding => /\ last.notes = <<[is_warning |-> FALSE,
                                                 print_paused |-> FALSE]>>
                              /\ print.alerted_at = last.t
           /\ Outstanding => NoEffect
C17_Witness ==
    /\ Strict /\ ~Gated /\ ~CoolingDown
    /\ last.printer.action_on_failure = PAUSE /\ last.pre.paused_at # None
    /\ Outstanding
    /\ NoEffect

\* C19: a frame sends at most one notification and issues at most one pause
\* command, and a frame that notifies has set alerted_at to its own time; the
\* notifications sent never outnumber the set_alert calls, and none is sent
\* while alerted_at is unset.
C19_NotifyAfterSetAlert ==
    /\ Frame => /\ Len(last.notes) <= 1
                /\ last.paused <= 1
                /\ last.notes # <<>> => print.alerted_at = last.t
    /\ Len(sent) <= alerts_set
    /\ Len(sent) > 0 => print.alerted_at # None
C19_Witness ==
    /\ Frame /\ last.notes # <<>> /\ last.paused = 1
    /\ Len(sent) = 2 /\ alerts_set = 2

\* the policy functions' outcome in the current state on a frame dispatched
\* to `branch`, were action_on_failure equal to a
Outcome(branch, a) ==
    RunPolicy(branch, [printer EXCEPT !.action_on_failure = a], has_print,
              World(print, "none"), now)

\* C20: a pause command is issued only by a strictly failing, unsuppressed
\* frame with action_on_failure = PAUSE and paused_at unset; in every reachable
\* state a frame has the same outcome (notifications, alerted_at, paused_at)
\* with action_on_failure NONE as with ALERT, and NONE does not silence the
\* notification of a strictly failing frame.
C20_ActionOnlyPauses ==
    /\ (Frame /\ last.paused >= 1)
          => (Strict /\ ~Gated /\ ~CoolingDown /\ PauseDue)
    /\ \A branch \in {"pause", "alert", "none"} :
          Outcome(branch, NONE) = Outcome(branch, ALERT)
    /\ (Strict /\ ~Gated /\ ~CoolingDown /\ ~Outstanding
          /\ last.printer.action_on_failure = NONE)
          => Len(last.notes) = 1
C20_Witness ==
    /\ Strict /\ last.printer.action_on_failure = NONE
    /\ last.notes = <<[is_warning |-> FALSE, print_paused |-> FALSE]>>
    /\ print.alerted_at = last.t
    /\ Outcome("pause", NONE) = Outcome("pause", ALERT)

\* C15: of two frames handled one after the other, the later one gets the
\* strictly larger pic identifier.
C15_FrameOrdering ==
    [][(last.op = "post" /\ last'.op = "post") => last'.pic_id > last.pic_id]_vars

\* C12: a frame during which the raw image store, the inference request or the
\* tagged image store fails leaves the prediction, alerted_at, paused_at and
\* the prediction counter as they were, pauses nothing and notifies nobody.
C12_FailureLeavesState ==
    (Frame /\ last.fail \in {"raw", "inference", "tagged"})
        => /\ prediction = last.pre_prediction
           /\ num_predictions = last.pre_num
           /\ NoEffect

\* C13: a frame whose notification fails keeps the alerted_at (and, on the
\* pause branch, the paused_at) it set; counting failed deliveries, at most one
\* notification other than the 'paused' one is attempted between two
\* acknowledgements.
C13_NotifyFailureKeepsState ==
    /\ (Frame /\ last.fail \in {"notify", "notify_quiet"})
          => /\ Len(last.notes) = 1
             /\ print.alerted_at = last.t
             /\ (last.branch = "pause" /\ PauseDue) => print.paused_at = last.t
    /\ CountPaused(window, FALSE) <= 1
C13_Witness ==
    /\ Frame /\ last.fail = "notify"
    /\ last.branch = "pause" /\ PauseDue
    /\ last.arrived = 1
    /\ print.alerted_at = last.t /\ print.paused_at = last.t

\* C14: a frame whose pause command fails still has alerted_at and paused_at
\* set to the frame's time.
C14_PauseFailureKeepsState ==
    (Frame /\ last.fail \in {"pause", "pause_quiet"})
        => /\ print.alerted_at = last.t
           /\ print.paused_at = last.t

\* C18: a scored frame, also one whose notification or pause command fails,
\* raises the prediction counter by one; a frame that is not scored leaves it.
C18_CounterPerScoredFrame ==
    /\ (Scored /\ last.fail \in {"none", "notify", "notify_quiet", "pause", "pause_quiet"})
          => num_predictions = last.pre_num + 1
    /\ (Frame /\ ~last.scored) => num_predictions = last.pre_num

====
